---- MODULE Spec2Model ----
(***************************************************************************)
(* Distinct-frame selection (FrameSelector.extract_distinct_frames and     *)
(* VideoTranscriber.extract_distinct_frames), the audio/frame timeline     *)
(* merge (VideoTranscriber._merge_audio_with_frames), the whole of         *)
(* VideoTranscriber.process_video with its audio and vision ports and its  *)
(* temp-file cleanup, read_frames of OpenCVVideoAdapter and of             *)
(* FakeVideoReader, frames_similar, ZipMarkdownReportGenerator.generate,   *)
(* two generators sharing one FrameSelector, and                           *)
(* FFmpegAudioExtractor.extract_audio, of video-transcriber.               *)
(*                                                                         *)
(* Abstractions.  An image is the grid of luminance values that            *)
(* compute_frame_hash obtains after cv2.cvtColor and cv2.resize; the hash  *)
(* is computed from that grid as the code computes it (pixel > mean).      *)
(* similarity_threshold is the rational similarity_threshold / ThrDen and  *)
(* a similarity is the rational agreements / length; comparisons are done  *)
(* by cross-multiplication.  Times are integers (ticks).                   *)
(***************************************************************************)
EXTENDS Integers, Sequences, FiniteSets, TLC

\* ------------------------------------------------------------------ bounds
MaxFrames == 3        \* frames a video reader yields in one invocation
MaxReuseFrames == 2   \* the same, when one selector serves two invocations
MaxGap == 2           \* largest step between consecutive frame numbers
MaxInterval == 2      \* largest min_frame_interval
ThrDen == 4           \* similarity_threshold ranges over 0/ThrDen .. ThrDen/ThrDen
TicksPerFrame == 2    \* timestamp_seconds of frame n is n * TicksPerFrame ticks
MaxMergeFrames == 3   \* captured frames handed to _merge_audio_with_frames
MaxSegments == 2      \* audio segments handed to _merge_audio_with_frames
MaxTime == 2          \* largest timestamp / segment time (ticks) in the merge

\* Luminance grids (two cells, two levels) the reader can deliver; two of them
\* are uniform, of different colours.
Images == {<<0, 0>>, <<0, 1>>, <<1, 0>>, <<1, 1>>}

FirstFrameNumbers == {0, 1}

Impls == {"FrameSelector", "VideoTranscriber"}

\* None for a hash, and Optional values as sequences of length <= 1.
NoHash == <<>>
None == <<>>
Some(x) == <<x>>

VARIABLES
    impl,                  \* which class's extract_distinct_frames runs
    similarity_threshold,  \* numerator of the threshold, over ThrDen
    min_frame_interval,
    self,                  \* FrameSelector instance fields
    loc,                   \* locals of VideoTranscriber.extract_distinct_frames
    pc,                    \* position of the generator
    pulled,                \* frames read_frames has yielded to the generator
    out,                   \* FrameResults handed to the consumer
    requests,              \* next() calls the consumer has made on the generator
    reused,                \* an earlier invocation ran on this instance
    mframes,               \* _merge_audio_with_frames: the frames list
    msegments,             \* _merge_audio_with_frames: the audio_segments list
    mpc,                   \* "input" before the call, "merged" after it
    pcfg,                  \* process_video: the instance's ports and the arguments
    ppc,                   \* process_video: "start", "frames", "returned", "raised"
    alog,                  \* calls made on the audio ports, in order
    asegs,                 \* process_video's local audio_segments
    vlog,                  \* calls made on the vision port, in order
    pframes,               \* _extract_and_transcribe_frames' local frames
    presult,               \* the TranscriptResult returned, or None
    perr,                  \* errors raised: by the reader, the generator, process_video
    rcfg,                  \* OpenCVVideoAdapter.read_frames: the video and the arguments
    rcap,                  \* the cv2.VideoCapture: "none", "unopened", "open", "released"
    frame_count,           \* read_frames' local frame_count
    yielded_count,         \* read_frames' local yielded_count
    rpc,                   \* position of the read_frames generator
    rout,                  \* frame numbers read_frames has yielded
    fa,                    \* frames_similar: first fingerprint
    fb,                    \* frames_similar: second fingerprint
    fsim,                  \* the similarities computed, or None
    fpc,                   \* "input" before the calls, "compared" after them
    gin,                   \* ZipMarkdownReportGenerator: the result and include_timestamps
    gzip,                  \* entries written to the zip file, in order
    gpc,                   \* "input" before generate, "generated" after it
    pc2,                   \* position of a second generator made from the same FrameSelector
    pulled2,               \* frames read_frames has yielded to the second generator
    out2,                  \* FrameResults the second generator handed to its consumer
    audio_path,            \* the path extract_audio returned to _extract_and_transcribe_audio, or None
    audio_file,            \* the file at that path: none, exists, removed or missing
    xcfg,                  \* FFmpegAudioExtractor: sample_rate, channels and the output_path argument
    xpc,                   \* position in extract_audio
    output_path,           \* extract_audio's local output_path, or None
    xfile,                 \* the file at output_path: none, exists, written or missing
    xrun,                  \* what subprocess.run did, or None
    xerr,                  \* the exception extract_audio raised, or None
    xret                   \* the path extract_audio returned, or None

selVars == <<impl, similarity_threshold, min_frame_interval, self, loc, pc,
             pulled, out, requests, reused>>

mergeVars == <<mframes, msegments, mpc>>

\* Everything the frame selection leaves alone / the merge leaves alone.
procVars == <<pcfg, ppc, alog, asegs, vlog, pframes, presult, perr>>

readVars == <<rcfg, rcap, frame_count, yielded_count, rpc, rout>>

simVars == <<fa, fb, fsim, fpc>>

reportVars == <<gin, gzip, gpc>>

pairVars == <<pc2, pulled2, out2>>

audioVars == <<audio_path, audio_file>>

ffmpegVars == <<xcfg, xpc, output_path, xfile, xrun, xerr, xret>>

nonSelVars == <<mergeVars, procVars, readVars, simVars, reportVars, pairVars, audioVars, ffmpegVars>>
nonMergeVars == <<selVars, procVars, readVars, simVars, reportVars, pairVars, audioVars, ffmpegVars>>
nonProcVars == <<mergeVars, readVars, simVars, reportVars, pairVars, audioVars, ffmpegVars>>
nonReadVars == <<selVars, mergeVars, procVars, simVars, reportVars, pairVars, audioVars, ffmpegVars>>
nonSimVars == <<selVars, mergeVars, procVars, readVars, reportVars, pairVars, audioVars, ffmpegVars>>
nonReportVars == <<selVars, mergeVars, procVars, readVars, simVars, pairVars, audioVars, ffmpegVars>>
nonPairVars == <<selVars, mergeVars, procVars, readVars, simVars, reportVars, audioVars, ffmpegVars>>
nonAudioVars == <<selVars, mergeVars, procVars, readVars, simVars, reportVars, pairVars, ffmpegVars>>
nonFfmpegVars == <<selVars, mergeVars, procVars, readVars, simVars, reportVars, pairVars, audioVars>>

vars == <<selVars, mergeVars, procVars, readVars, simVars, reportVars, pairVars, audioVars, ffmpegVars>>

\* ------------------------------------------------------- frame_comparison.py
RECURSIVE SumSeq(_)
SumSeq(s) == IF s = <<>> THEN 0 ELSE Head(s) + SumSeq(Tail(s))

\* (resized > resized.mean()).flatten()
compute_frame_hash_NonStrict(image) ==
    [i \in 1..Len(image) |-> Len(image) * image[i] >= SumSeq(image)]
compute_frame_hash(image) ==
    [i \in 1..Len(image) |-> Len(image) * image[i] > SumSeq(image)]

\* Number of True entries of hash1 == hash2; numpy compares an array with
\* None elementwise, giving all False.
Agreements_Differing(hash1, hash2) ==
    Cardinality({i \in 1..Len(hash1) : hash2 # NoHash /\ hash1[i] # hash2[i]})
Agreements(hash1, hash2) ==
    Cardinality({i \in 1..Len(hash1) : hash2 # NoHash /\ hash1[i] = hash2[i]})

\* float(np.mean(hash1 == hash2)) as the rational <<numerator, denominator>>
frames_similar(hash1, hash2) == <<Agreements(hash1, hash2), Len(hash1)>>

\* sim < threshold / ThrDen
RatLess(sim, thr) == sim[1] * ThrDen < thr * sim[2]

\* -------------------------------------------------------------- the reader
Frame(n, img) == [frame_number |-> n, timestamp_seconds |-> n * TicksPerFrame,
                  image |-> img]

\* The frames read_frames can yield next: strictly increasing frame numbers.
NextFrames(sofar) ==
    IF sofar = <<>>
    THEN {Frame(n, img) : n \in FirstFrameNumbers, img \in Images}
    ELSE {Frame(sofar[Len(sofar)].frame_number + g, img) :
              g \in 1..MaxGap, img \in Images}

\* ------------------------------------------------------------ FrameSelector
_reset_state(k) ==
    [current_hash |-> NoHash, current_frame_number |-> None,
     last_hash |-> NoHash, last_captured_frame_number |-> Some(-k)]

\* extract_distinct_frames line 65, run by the first next()
FSOnFirstNext_NoReset(s, k) == s
FSOnFirstNext(s, k) == _reset_state(k)

_interval_is_enough_Exclusive(s, k) ==
    (s.current_frame_number[1] - s.last_captured_frame_number[1]) > k
_interval_is_enough(s, k) ==
    (s.current_frame_number[1] - s.last_captured_frame_number[1]) >= k

_differ_enough_NonStrict(s, thr) ==
    \/ RatLess(frames_similar(s.current_hash, s.last_hash), thr)
    \/ frames_similar(s.current_hash, s.last_hash)[1] * ThrDen
           = thr * frames_similar(s.current_hash, s.last_hash)[2]
_differ_enough(s, thr) ==
    RatLess(frames_similar(s.current_hash, s.last_hash), thr)

_is_frame_distinct(s, thr, k) ==
    _differ_enough(s, thr) /\ _interval_is_enough(s, k)

\* `and` evaluates _interval_is_enough only when _differ_enough is true; its
\* subtraction raises TypeError when last_captured_frame_number is None.
_interval_raises(s, thr) ==
    _differ_enough(s, thr) /\ s.last_captured_frame_number = None

\* lines 69-70
FSOnFrame(s, frame) ==
    [s EXCEPT !.current_hash = compute_frame_hash(frame.image),
              !.current_frame_number = Some(frame.frame_number)]

\* lines 80-81, run when the generator is resumed after its yield
FSAfterYield_NumberOnly(s) ==
    [s EXCEPT !.last_captured_frame_number = s.current_frame_number]
FSAfterYield(s) ==
    [s EXCEPT !.last_hash = s.current_hash,
              !.last_captured_frame_number = s.current_frame_number]

\* --------------------------------- VideoTranscriber.extract_distinct_frames
NoLocals == [current_hash |-> NoHash, last_hash |-> NoHash,
             last_captured_frame |-> 0]

\* lines 66-67
VTOnFirstNext(k) ==
    [current_hash |-> NoHash, last_hash |-> NoHash, last_captured_frame |-> -k]

\* line 71
VTOnFrame(l, frame) == [l EXCEPT !.current_hash = compute_frame_hash(frame.image)]

\* lines 74-81
VTIsDistinct_NoInterval(l, frame, thr, k) ==
    IF l.last_hash = NoHash
    THEN TRUE
    ELSE RatLess(frames_similar(l.current_hash, l.last_hash), thr)
VTIsDistinct(l, frame, thr, k) ==
    IF l.last_hash = NoHash
    THEN TRUE
    ELSE IF RatLess(frames_similar(l.current_hash, l.last_hash), thr)
         THEN (frame.frame_number - l.last_captured_frame) >= k
         ELSE FALSE

\* lines 90-91
VTAfterYield_FirstHashKept(l, frame) ==
    [l EXCEPT !.last_hash = IF l.last_hash = NoHash THEN l.current_hash ELSE l.last_hash,
              !.last_captured_frame = frame.frame_number]
VTAfterYield(l, frame) ==
    [l EXCEPT !.last_hash = l.current_hash,
              !.last_captured_frame = frame.frame_number]

\* ------------------------------------------------------ both generators
MakeFrameResult_SwappedFields(frame) ==
    [frame_number |-> frame.timestamp_seconds,
     timestamp_seconds |-> frame.frame_number,
     image |-> frame.image]
\* FrameResult(frame_number=..., timestamp_seconds=..., image=...)
MakeFrameResult(frame) ==
    [frame_number |-> frame.frame_number,
     timestamp_seconds |-> frame.timestamp_seconds,
     image |-> frame.image]

\* `if distinct: yield ...`: the generator suspends exactly when it emits
PcAfterDecision_NoSuspend(distinct) == "running"
PcAfterDecision(distinct) == IF distinct THEN "yielded" ELSE "running"

SelInit ==
    /\ impl \in Impls
    /\ similarity_threshold \in 0..ThrDen
    /\ min_frame_interval \in 0..MaxInterval
    /\ self = _reset_state(min_frame_interval)
    /\ loc = NoLocals
    /\ pc = "idle"
    /\ pulled = <<>>
    /\ out = <<>>
    /\ requests = 0
    /\ reused = FALSE

\* The consumer calls extract_distinct_frames: a generator object is made,
\* none of its body runs.
Call ==
    /\ pc = "idle"
    /\ pc' = "created"
    /\ pulled' = <<>>
    /\ out' = <<>>
    /\ requests' = 0
    /\ UNCHANGED <<impl, similarity_threshold, min_frame_interval, self, loc, reused,
                   nonSelVars>>

\* A second call on the same instance, after the first generator finished
\* or was abandoned.
CallAgain ==
    /\ pc \in {"done", "closed"}
    /\ ~reused
    /\ reused' = TRUE
    /\ pc' = "created"
    /\ pulled' = <<>>
    /\ out' = <<>>
    /\ requests' = 0
    /\ UNCHANGED <<impl, similarity_threshold, min_frame_interval, self, loc,
                   nonSelVars>>

\* The consumer calls next(): the generator body starts, or resumes after
\* its yield, and goes on to the head of the for loop.
ConsumerNext ==
    /\ pc \in {"created", "yielded"}
    /\ requests' = requests + 1
    /\ pc' = "running"
    /\ IF impl = "FrameSelector"
       THEN /\ self' = IF pc = "created"
                       THEN FSOnFirstNext(self, min_frame_interval)
                       ELSE FSAfterYield(self)
            /\ loc' = loc
       ELSE /\ loc' = IF pc = "created"
                      THEN VTOnFirstNext(min_frame_interval)
                      ELSE VTAfterYield(loc, pulled[Len(pulled)])
            /\ self' = self
    /\ UNCHANGED <<impl, similarity_threshold, min_frame_interval, pulled, out, reused,
                   nonSelVars>>

\* One iteration of the for loop: read_frames yields a frame, the generator
\* hashes it, decides, and yields it or goes round again.
Pull(maxFrames) ==
    /\ pc = "running"
    /\ Len(pulled) < maxFrames
    /\ \E frame \in NextFrames(pulled) :
        /\ pulled' = Append(pulled, frame)
        /\ IF impl = "FrameSelector"
           THEN /\ self' = FSOnFrame(self, frame)
                /\ loc' = loc
                /\ IF _interval_raises(self', similarity_threshold)
                   THEN out' = out /\ pc' = "raised"
                   ELSE LET distinct == _is_frame_distinct(self', similarity_threshold,
                                                           min_frame_interval)
                        IN /\ out' = IF distinct
                                     THEN Append(out, MakeFrameResult(frame))
                                     ELSE out
                           /\ pc' = PcAfterDecision(distinct)
           ELSE /\ loc' = VTOnFrame(loc, frame)
                /\ self' = self
                /\ LET distinct == VTIsDistinct(loc', frame, similarity_threshold,
                                                min_frame_interval)
                   IN /\ out' = IF distinct THEN Append(out, MakeFrameResult(frame))
                                            ELSE out
                      /\ pc' = PcAfterDecision(distinct)
    /\ UNCHANGED <<impl, similarity_threshold, min_frame_interval, requests, reused,
                   nonSelVars>>

\* read_frames is exhausted: the for loop ends and the generator returns.
Exhaust_Raises ==
    /\ pc = "running"
    /\ pc' = "raised"
    /\ UNCHANGED <<impl, similarity_threshold, min_frame_interval, self, loc,
                   pulled, out, requests, reused, nonSelVars>>
Exhaust ==
    /\ pc = "running"
    /\ pc' = "done"
    /\ UNCHANGED <<impl, similarity_threshold, min_frame_interval, self, loc,
                   pulled, out, requests, reused, nonSelVars>>

\* The consumer abandons the generator: GeneratorExit at the yield (or before
\* the body started); no statement of the body runs.
Close ==
    /\ pc \in {"created", "yielded"}
    /\ pc' = "closed"
    /\ UNCHANGED <<impl, similarity_threshold, min_frame_interval, self, loc,
                   pulled, out, requests, reused, nonSelVars>>

\* A selector that is constructed and never used.
SelIdle ==
    /\ impl = "VideoTranscriber"
    /\ similarity_threshold = 0
    /\ min_frame_interval = 0
    /\ self = _reset_state(min_frame_interval)
    /\ loc = NoLocals
    /\ pc = "idle"
    /\ pulled = <<>>
    /\ out = <<>>
    /\ requests = 0
    /\ reused = FALSE

\* No error raised so far.
NoErrors == [reader |-> "none", generator |-> "none", process |-> "none"]

\* A VideoTranscriber on which process_video is never called.
ProcIdle ==
    /\ pcfg = [transcribe_audio |-> FALSE, audio_extractor |-> FALSE,
               audio_transcriber |-> FALSE, transcribe_visuals |-> FALSE,
               prompt |-> None]
    /\ ppc = "start"
    /\ alog = <<>>
    /\ asegs = <<>>
    /\ vlog = <<>>
    /\ pframes = <<>>
    /\ presult = None
    /\ perr = NoErrors

\* A video reader on which read_frames is never called.
ReadIdle ==
    /\ rcfg = [reader |-> "OpenCVVideoAdapter", total |-> 0, sample_interval |-> 1,
               limit |-> 0, opens |-> FALSE]
    /\ rcap = "none"
    /\ frame_count = 0
    /\ yielded_count = 0
    /\ rpc = "idle"
    /\ rout = <<>>

\* A report generator on which generate is never called.
ReportIdle ==
    /\ gin = [frames |-> <<>>, audio_segments |-> <<>>, include_timestamps |-> FALSE]
    /\ gzip = <<>>
    /\ gpc = "input"

\* No second generator.
PairIdle ==
    /\ pc2 = "idle"
    /\ pulled2 = <<>>
    /\ out2 = <<>>

\* No audio was extracted.
AudioIdle ==
    /\ audio_path = None
    /\ audio_file = "none"

\* An FFmpegAudioExtractor on which extract_audio is never called.
FfmpegIdle ==
    /\ xcfg = [sample_rate |-> 16000, channels |-> 1, output_path |-> None]
    /\ xpc = "idle"
    /\ output_path = None
    /\ xfile = "none"
    /\ xrun = None
    /\ xerr = None
    /\ xret = None

\* No fingerprints compared.
SimIdle ==
    /\ fa = <<>>
    /\ fb = <<>>
    /\ fsim = None
    /\ fpc = "input"

\* ------------------------------- VideoTranscriber._merge_audio_with_frames
RECURSIVE SeqsUpTo(_, _)
SeqsUpTo(S, n) ==
    IF n = 0 THEN {<<>>}
    ELSE LET shorter == SeqsUpTo(S, n - 1)
         IN shorter \cup {Append(q, x) : q \in {r \in shorter : Len(r) = n - 1}, x \in S}

\* A captured frame as _extract_and_transcribe_frames returns it: its
\* audio_segments is the dataclass default, an empty list.
CapturedFrame(t) == [timestamp_seconds |-> t, audio_segments |-> <<>>]

\* AudioSegment(start_seconds, end_seconds, text)
AudioSegment(s, e, t) == [start_seconds |-> s, end_seconds |-> e, text |-> t]

SegmentTimes == {q \in (0..MaxTime) \X (0..MaxTime) : q[1] <= q[2]}

\* Segment lists; the text of a segment is its position in the list.
SegmentLists ==
    {[j \in 1..Len(q) |-> AudioSegment(q[j][1], q[j][2], j)] :
        q \in SeqsUpTo(SegmentTimes, MaxSegments)}

FrameLists ==
    {[i \in 1..Len(q) |-> CapturedFrame(q[i])] : q \in SeqsUpTo(0..MaxTime, MaxMergeFrames)}

\* lines 173-186: `start_time <= seg.start_seconds < end_time`, where end_time
\* is the next frame's timestamp, or float('inf') for the last frame
StartsInRange_InclusiveEnd(frames, i, seg) ==
    /\ frames[i].timestamp_seconds <= seg.start_seconds
    /\ (i + 1 <= Len(frames) => seg.start_seconds <= frames[i + 1].timestamp_seconds)
StartsInRange(frames, i, seg) ==
    /\ frames[i].timestamp_seconds <= seg.start_seconds
    /\ (i + 1 <= Len(frames) => seg.start_seconds < frames[i + 1].timestamp_seconds)

\* lines 170-188
_merge_audio_with_frames(frames, audio_segments) ==
    IF audio_segments = <<>>
    THEN frames
    ELSE [i \in 1..Len(frames) |->
            [frames[i] EXCEPT !.audio_segments =
                SelectSeq(audio_segments, LAMBDA seg : StartsInRange(frames, i, seg))]]

MergeInit ==
    /\ mframes \in FrameLists
    /\ msegments \in SegmentLists
    /\ mpc = "input"

MergeIdle ==
    /\ mframes = <<>>
    /\ msegments = <<>>
    /\ mpc = "input"

Merge ==
    /\ mpc = "input"
    /\ mframes' = _merge_audio_with_frames(mframes, msegments)
    /\ mpc' = "merged"
    /\ UNCHANGED <<msegments, nonMergeVars>>

InitMerge == SelIdle /\ MergeInit /\ ProcIdle /\ ReadIdle /\ SimIdle /\ ReportIdle /\ PairIdle /\ AudioIdle /\ FfmpegIdle

NextMerge == Merge

SpecMerge == InitMerge /\ [][NextMerge]_vars

Init == SelInit /\ MergeIdle /\ ProcIdle /\ ReadIdle /\ SimIdle /\ ReportIdle /\ PairIdle /\ AudioIdle /\ FfmpegIdle

Next ==
    \/ Call
    \/ ConsumerNext
    \/ Pull(MaxFrames)
    \/ Exhaust
    \/ Close

Spec == Init /\ [][Next]_vars

NextReuse ==
    \/ Call
    \/ CallAgain
    \/ ConsumerNext
    \/ Pull(MaxReuseFrames)
    \/ Exhaust
    \/ Close

SpecReuse == Init /\ [][NextReuse]_vars

\* A reader with no frame to yield, under a consumer that iterates to the
\* end (a for loop over the generator).
NextEmpty ==
    \/ Call
    \/ ConsumerNext
    \/ Exhaust

\* The loop keeps asking and the interpreter runs the generator when asked.
SpecEmptyFair == Init /\ [][NextEmpty]_vars /\ WF_vars(NextEmpty)

\* --------------------- two generators made from one FrameSelector instance
MaxPairFrames == 2      \* frames the first of the two generators reads
MaxSecondFrames == 1    \* frames the second generator reads

\* A FrameSelector from which extract_distinct_frames is called twice: both
\* generator objects work on the instance's fields.
PairInit ==
    /\ impl = "FrameSelector"
    /\ similarity_threshold \in 0..ThrDen
    /\ min_frame_interval \in 0..MaxInterval
    /\ self = _reset_state(min_frame_interval)
    /\ loc = NoLocals
    /\ pc = "idle"
    /\ pulled = <<>>
    /\ out = <<>>
    /\ requests = 0
    /\ reused = FALSE
    /\ pc2 = "idle"
    /\ pulled2 = <<>>
    /\ out2 = <<>>

\* The second call of extract_distinct_frames: a generator object, no body
\* statement run.
Call2 ==
    /\ pc2 = "idle"
    /\ pc2' = "created"
    /\ UNCHANGED <<pulled2, out2, nonPairVars>>

\* next() on the first generator. A generator runs from next() to its yield
\* or return on the caller's thread, so a next() is only ever called while the
\* other generator is suspended, finished or not started.
ConsumerNext1 == pc2 # "running" /\ ConsumerNext

\* next() on the second generator: line 65 on its first next(), lines 80-81
\* when it is resumed after its yield.
ConsumerNext2 ==
    /\ pc2 \in {"created", "yielded"}
    /\ pc # "running"
    /\ pc2' = "running"
    /\ self' = IF pc2 = "created" THEN FSOnFirstNext(self, min_frame_interval)
                                  ELSE FSAfterYield(self)
    /\ UNCHANGED <<impl, similarity_threshold, min_frame_interval, loc, pc, pulled,
                   out, requests, reused, pulled2, out2,
                   mergeVars, procVars, readVars, simVars, reportVars, audioVars,
                   ffmpegVars>>

\* lines 67-78 in the second generator
Pull2 ==
    /\ pc2 = "running"
    /\ Len(pulled2) < MaxSecondFrames
    /\ \E frame \in NextFrames(pulled2) :
        /\ pulled2' = Append(pulled2, frame)
        /\ self' = FSOnFrame(self, frame)
        /\ IF _interval_raises(self', similarity_threshold)
           THEN out2' = out2 /\ pc2' = "raised"
           ELSE LET distinct == _is_frame_distinct(self', similarity_threshold,
                                                   min_frame_interval)
                IN /\ out2' = IF distinct THEN Append(out2, MakeFrameResult(frame))
                                          ELSE out2
                   /\ pc2' = PcAfterDecision(distinct)
    /\ UNCHANGED <<impl, similarity_threshold, min_frame_interval, loc, pc, pulled,
                   out, requests, reused,
                   mergeVars, procVars, readVars, simVars, reportVars, audioVars,
                   ffmpegVars>>

\* The second generator's read_frames is exhausted.
Exhaust2 ==
    /\ pc2 = "running"
    /\ pc2' = "done"
    /\ UNCHANGED <<pulled2, out2, nonPairVars>>

InitPair == PairInit /\ MergeIdle /\ ProcIdle /\ ReadIdle /\ SimIdle /\ ReportIdle /\ AudioIdle /\ FfmpegIdle

\* The consumers' next() calls and the generators' steps, in any order.
NextPair ==
    \/ Call
    \/ ConsumerNext1
    \/ Pull(MaxPairFrames)
    \/ Exhaust
    \/ Call2
    \/ ConsumerNext2
    \/ Pull2
    \/ Exhaust2

SpecPair == InitPair /\ [][NextPair]_vars

\* ------------------------------------------ VideoTranscriber.process_video
MaxProcFrames == 2    \* frames the reader yields during one process_video call

DefaultPrompt == "Transcribe all text visible in this presentation slide."
CallerPrompt == "caller prompt"

\* The instance's optional audio ports (configured or None) and the
\* arguments of one process_video call.
ProcConfigs ==
    [transcribe_audio : BOOLEAN, audio_extractor : BOOLEAN,
     audio_transcriber : BOOLEAN, transcribe_visuals : BOOLEAN,
     prompt : {None, Some(CallerPrompt)}]

\* Segment lists an audio transcriber returns; the last one is not in start
\* order and has a segment that starts before any frame numbered 1 or more.
ProcSegmentLists ==
    {<<>>,
     <<AudioSegment(0, 1, 1)>>,
     <<AudioSegment(3, 4, 1), AudioSegment(0, 1, 2)>>}

\* extract_audio returns a path or raises.
ExtractorOutcomes == {"path", "AudioExtractionError"}

\* transcribe_audio returns a segment list or raises.
TranscriberOutcomes ==
    {[raises |-> "none", segments |-> segs] : segs \in ProcSegmentLists}
        \cup {[raises |-> e, segments |-> <<>>] :
                 e \in {"AudioTranscriptionError", "RuntimeError"}}

\* transcribe_image returns text or raises.
VisionOutcomes == {"text", "VisionTranscriptionError"}

\* Errors a video reader raises while frames are read.
ReaderErrors == {"VideoReadError", "cv2.error"}

\* The text a vision transcriber returns for an image.
VisionText(image) == image

\* lines 211-212
EffectivePrompt(prompt) == IF prompt = None THEN DefaultPrompt ELSE prompt[1]

\* line 216
AudioRequested_IgnoresFlag(cfg) ==
    cfg.audio_extractor /\ cfg.audio_transcriber
AudioRequested(cfg) ==
    cfg.transcribe_audio /\ cfg.audio_extractor /\ cfg.audio_transcriber

\* line 111: except (AudioExtractionError, AudioTranscriptionError)
CaughtInAudio_ExtractionOnly(e) ==
    e \in {"AudioExtractionError"}
CaughtInAudio(e) ==
    e \in {"AudioExtractionError", "AudioTranscriptionError"}

PortCall(port, raises, returned) ==
    [port |-> port, raises |-> raises, returned |-> returned]

\* lines 105-120, given what the two ports do when called: the calls made,
\* the list returned, and the error that leaves the method ("none": returns).
_extract_and_transcribe_audio(xo, to) ==
    IF xo # "path"
    THEN [log |-> <<PortCall("extract_audio", xo, <<>>)>>,
          audio_segments |-> <<>>,
          raises |-> IF CaughtInAudio(xo) THEN "none" ELSE xo]
    ELSE [log |-> <<PortCall("extract_audio", "none", <<>>),
                    PortCall("transcribe_audio", to.raises, to.segments)>>,
          audio_segments |-> to.segments,
          raises |-> IF to.raises = "none" \/ CaughtInAudio(to.raises)
                     THEN "none" ELSE to.raises]

\* Paths as character sequences. tempfile.gettempdir() and the paths an
\* audio extractor can return: a file in the temp directory, a file in a
\* sibling directory whose name starts with the temp directory's name, and a
\* file elsewhere.
gettempdir == <<"/", "t">>
AudioPaths == {<<"/", "t", "/", "a">>, <<"/", "t", "x", "/", "a">>,
               <<"/", "v", "/", "a">>}

\* str.startswith
startswith(str, prefix) ==
    Len(str) >= Len(prefix) /\ SubSeq(str, 1, Len(prefix)) = prefix

\* os.remove deletes the file or raises.
RemoveOutcomes == {"removed", "FileNotFoundError", "PermissionError"}

\* line 114: `if audio_path and audio_path.startswith(tempfile.gettempdir())`
ShouldRemove(path) == path # None /\ startswith(path[1], gettempdir)

\* lines 113-118, the finally clause: what becomes of the file at audio_path
\* given what os.remove does; both errors are swallowed.
_audio_cleanup(path, ro) ==
    IF path = None
    THEN "none"
    ELSE IF ShouldRemove(path)
         THEN CASE ro = "removed" -> "removed"
                [] ro = "FileNotFoundError" -> "missing"
                [] ro = "PermissionError" -> "exists"
         ELSE "exists"

\* line 145
ShouldTranscribe_Always(transcribe_visuals) == TRUE
ShouldTranscribe(transcribe_visuals) == transcribe_visuals

\* A FrameResult in the frames list: transcription None or the text, and
\* audio_segments the dataclass default
CollectedFrame(fr, transcription) ==
    [frame_number |-> fr.frame_number, timestamp_seconds |-> fr.timestamp_seconds,
     image |-> fr.image, transcription |-> transcription, audio_segments |-> <<>>]

\* The for loops of both generators have no try/except: an error raised by
\* read_frames leaves the generator as it is.
SelectorOnReaderError_Replaced(e) == "VideoReadError"
SelectorOnReaderError(e) == e

RECURSIVE Flatten(_)
Flatten(ss) == IF ss = <<>> THEN <<>> ELSE Head(ss) \o Flatten(Tail(ss))

\* line 227
TranscriptResult_Grouped(frames, audio_segments) ==
    [frames |-> frames,
     audio_segments |-> Flatten([i \in 1..Len(frames) |-> frames[i].audio_segments])]
TranscriptResult(frames, audio_segments) ==
    [frames |-> frames, audio_segments |-> audio_segments]

\* A VideoTranscriber with a reader and a vision port, and audio ports or
\* none, about to run process_video; the selection parameters are the ones
\* of the test fixtures (a threshold between 1/2 and 1, interval 1).
ProcInit ==
    /\ impl = "VideoTranscriber"
    /\ similarity_threshold = ThrDen - 1
    /\ min_frame_interval = 1
    /\ self = _reset_state(min_frame_interval)
    /\ loc = NoLocals
    /\ pc = "idle"
    /\ pulled = <<>>
    /\ out = <<>>
    /\ requests = 0
    /\ reused = FALSE
    /\ pcfg \in ProcConfigs
    /\ ppc = "start"
    /\ alog = <<>>
    /\ asegs = <<>>
    /\ vlog = <<>>
    /\ pframes = <<>>
    /\ presult = None
    /\ perr = NoErrors

\* lines 211-217: the audio part of process_video, before any frame is read
PAudio ==
    /\ ppc = "start"
    /\ IF AudioRequested(pcfg)
       THEN \E xo \in ExtractorOutcomes, to \in TranscriberOutcomes,
               path \in AudioPaths, ro \in RemoveOutcomes :
              LET r == _extract_and_transcribe_audio(xo, to)
              IN /\ alog' = r.log
                 /\ asegs' = r.audio_segments
                 /\ ppc' = IF r.raises = "none" THEN "frames" ELSE "raised"
                 /\ perr' = [perr EXCEPT !.process = r.raises]
                 /\ audio_path' = IF xo = "path" THEN Some(path) ELSE None
                 /\ audio_file' = _audio_cleanup(audio_path', ro)
       ELSE /\ alog' = <<>>
            /\ asegs' = <<>>
            /\ ppc' = "frames"
            /\ perr' = perr
            /\ UNCHANGED audioVars
    /\ UNCHANGED <<pcfg, vlog, pframes, presult, selVars,
                   mergeVars, readVars, simVars, reportVars, pairVars, ffmpegVars>>

\* line 143: the for statement calls extract_distinct_frames
PCallExtract ==
    /\ ppc = "frames"
    /\ Call

\* line 143: the for statement asks the generator for its next frame
PNextFrame ==
    /\ ppc = "frames"
    /\ Len(pframes) = Len(out)
    /\ ConsumerNext

\* read_frames raises while the generator waits for its next frame
PReaderRaise ==
    /\ pc = "running"
    /\ \E e \in ReaderErrors :
         perr' = [perr EXCEPT !.reader = e, !.generator = SelectorOnReaderError(e)]
    /\ pc' = "raised"
    /\ UNCHANGED <<impl, similarity_threshold, min_frame_interval, self, loc,
                   pulled, out, requests, reused, nonProcVars,
                   pcfg, ppc, alog, asegs, vlog, pframes, presult>>

\* lines 144-149: the loop body for the frame the generator just yielded.
\* An error raised by transcribe_image leaves the loop, the method and
\* process_video; the suspended generator is discarded.
PFrame ==
    /\ ppc = "frames"
    /\ pc = "yielded"
    /\ Len(pframes) < Len(out)
    /\ LET fr == out[Len(out)]
       IN IF ShouldTranscribe(pcfg.transcribe_visuals)
          THEN \E vo \in VisionOutcomes :
                 /\ vlog' = Append(vlog, [image |-> fr.image,
                                          prompt |-> EffectivePrompt(pcfg.prompt),
                                          outcome |-> vo])
                 /\ IF vo = "text"
                    THEN /\ pframes' = Append(pframes,
                                         CollectedFrame(fr, Some(VisionText(fr.image))))
                         /\ UNCHANGED <<ppc, perr, pc>>
                    ELSE /\ ppc' = "raised"
                         /\ perr' = [perr EXCEPT !.process = vo]
                         /\ pc' = "closed"
                         /\ pframes' = pframes
          ELSE /\ pframes' = Append(pframes, CollectedFrame(fr, None))
               /\ UNCHANGED <<vlog, ppc, perr, pc>>
    /\ UNCHANGED <<impl, similarity_threshold, min_frame_interval, self, loc,
                   pulled, out, requests, reused, nonProcVars,
                   pcfg, alog, asegs, presult>>

\* The generator raised: nothing in _extract_and_transcribe_frames or
\* process_video catches it.
PAbort ==
    /\ ppc = "frames"
    /\ pc = "raised"
    /\ ppc' = "raised"
    /\ perr' = [perr EXCEPT !.process = perr.generator]
    /\ UNCHANGED <<pcfg, alog, asegs, vlog, pframes, presult, selVars, nonProcVars>>

\* lines 151, 225-227: the generator is exhausted; merge and return
PReturn ==
    /\ ppc = "frames"
    /\ pc = "done"
    /\ presult' = Some(TranscriptResult(_merge_audio_with_frames(pframes, asegs), asegs))
    /\ ppc' = "returned"
    /\ UNCHANGED <<pcfg, alog, asegs, vlog, pframes, perr, selVars, nonProcVars>>

InitProc == ProcInit /\ MergeIdle /\ ReadIdle /\ SimIdle /\ ReportIdle /\ PairIdle /\ AudioIdle /\ FfmpegIdle

NextProc ==
    \/ PAudio
    \/ PCallExtract
    \/ PNextFrame
    \/ Pull(MaxProcFrames)
    \/ PReaderRaise
    \/ Exhaust
    \/ PFrame
    \/ PAbort
    \/ PReturn

SpecProc == InitProc /\ [][NextProc]_vars

\* ------------- OpenCVVideoAdapter.read_frames, FakeVideoReader.read_frames
MaxVideoFrames == 3   \* frames cap.read() can decode from the video
MaxSample == 2        \* largest sample_interval
MaxLimit == 2         \* largest limit

Readers == {"OpenCVVideoAdapter", "FakeVideoReader"}

\* The reader, the video (how many frames it decodes, whether it opens; the
\* configured list of a FakeVideoReader is always there) and the arguments
\* of one read_frames call.
ReadConfigs ==
    {c \in [reader : Readers, total : 0..MaxVideoFrames,
            sample_interval : 1..MaxSample, limit : 0..MaxLimit, opens : BOOLEAN] :
        c.reader = "FakeVideoReader" => c.opens}

\* opencv_video.py line 88: `frame_count % sample_interval == 0`, after
\* frame_count was incremented
IsSampled_BeforeIncrement(count, n) == (count - 1) % n = 0
IsSampled(count, n) == count % n = 0

\* fake_video.py line 65: `i % sample_interval == 0` on the enumerate index
FakeIsSampled(i, n) == i % n = 0

\* lines 98-99 (fake_video.py 68-69): `if yielded_count >= limit: break`,
\* evaluated when the generator is resumed after a yield
LimitReached(count, limit) == count >= limit

\* lines 100-101: `finally: cap.release()`
OnExit_NoRelease(cap) == cap
OnExit(cap) == "released"

ReadInit ==
    /\ rcfg \in ReadConfigs
    /\ rcap = "none"
    /\ frame_count = 0
    /\ yielded_count = 0
    /\ rpc = "idle"
    /\ rout = <<>>

\* The consumer calls read_frames: a generator object, no body statement run.
RCall ==
    /\ rpc = "idle"
    /\ rpc' = "created"
    /\ UNCHANGED <<rcfg, rcap, frame_count, yielded_count, rout, nonReadVars>>

\* lines 69-77: the first next() opens the capture; a capture that is not
\* opened raises VideoReadError before the try statement is entered.
RStart ==
    /\ rcfg.reader = "OpenCVVideoAdapter"
    /\ rpc = "created"
    /\ IF rcfg.opens
       THEN /\ rcap' = "open"
            /\ rpc' = "reading"
       ELSE /\ rcap' = "unopened"
            /\ rpc' = "raised"
    /\ frame_count' = 0
    /\ yielded_count' = 0
    /\ UNCHANGED <<rcfg, rout, nonReadVars>>

\* lines 79-95: one iteration of the while loop, up to its yield, its break
\* at the end of the video, or the next iteration.
RRead ==
    /\ rcfg.reader = "OpenCVVideoAdapter"
    /\ rpc = "reading"
    /\ IF frame_count >= rcfg.total
       THEN /\ rcap' = OnExit(rcap)
            /\ rpc' = "done"
            /\ UNCHANGED <<frame_count, rout>>
       ELSE /\ frame_count' = frame_count + 1
            /\ IF IsSampled(frame_count', rcfg.sample_interval)
               THEN /\ rout' = Append(rout, frame_count')
                    /\ rpc' = "yielded"
               ELSE /\ rout' = rout
                    /\ rpc' = "reading"
            /\ rcap' = rcap
    /\ UNCHANGED <<rcfg, yielded_count, nonReadVars>>

\* An exception inside the try statement (cap.get, cap.read, image.copy).
RError ==
    /\ rcfg.reader = "OpenCVVideoAdapter"
    /\ rpc = "reading"
    /\ rcap' = OnExit(rcap)
    /\ rpc' = "raised"
    /\ UNCHANGED <<rcfg, frame_count, yielded_count, rout, nonReadVars>>

\* lines 97-99: next() resumes the generator after its yield.
RResume ==
    /\ rcfg.reader = "OpenCVVideoAdapter"
    /\ rpc = "yielded"
    /\ yielded_count' = yielded_count + 1
    /\ IF LimitReached(yielded_count', rcfg.limit)
       THEN /\ rcap' = OnExit(rcap)
            /\ rpc' = "done"
       ELSE /\ rcap' = rcap
            /\ rpc' = "reading"
    /\ UNCHANGED <<rcfg, frame_count, rout, nonReadVars>>

\* The consumer stops iterating and drops the generator: a loop in
\* extract_distinct_frames that was itself abandoned, or a caller's break.
RAbandon ==
    /\ rpc \in {"created", "yielded"}
    /\ rpc' = IF rpc = "created" THEN "abandoned unstarted" ELSE "abandoned"
    /\ UNCHANGED <<rcfg, rcap, frame_count, yielded_count, rout, nonReadVars>>

\* The interpreter finalises the dropped generator: close() raises
\* GeneratorExit at the yield and the finally clause runs; a generator that
\* never started has no frame to unwind.
RFinalize ==
    /\ rpc \in {"abandoned", "abandoned unstarted"}
    /\ rcap' = IF rpc = "abandoned" /\ rcfg.reader = "OpenCVVideoAdapter"
               THEN OnExit(rcap) ELSE rcap
    /\ rpc' = "closed"
    /\ UNCHANGED <<rcfg, frame_count, yielded_count, rout, nonReadVars>>

\* fake_video.py lines 60-63: the first next() on a FakeVideoReader's generator
FStart ==
    /\ rcfg.reader = "FakeVideoReader"
    /\ rpc = "created"
    /\ rpc' = "reading"
    /\ frame_count' = 0
    /\ yielded_count' = 0
    /\ UNCHANGED <<rcfg, rcap, rout, nonReadVars>>

\* fake_video.py lines 64-66: one step of `for i, frame in enumerate(...)`;
\* frame_count is the number of list items taken, the index i before the
\* step, and rout gets the item's position i + 1.
FRead ==
    /\ rcfg.reader = "FakeVideoReader"
    /\ rpc = "reading"
    /\ IF frame_count >= rcfg.total
       THEN /\ rpc' = "done"
            /\ UNCHANGED <<frame_count, rout>>
       ELSE /\ frame_count' = frame_count + 1
            /\ IF FakeIsSampled(frame_count, rcfg.sample_interval)
               THEN /\ rout' = Append(rout, frame_count + 1)
                    /\ rpc' = "yielded"
               ELSE /\ rout' = rout
                    /\ rpc' = "reading"
    /\ UNCHANGED <<rcfg, rcap, yielded_count, nonReadVars>>

\* fake_video.py lines 67-69
FResume ==
    /\ rcfg.reader = "FakeVideoReader"
    /\ rpc = "yielded"
    /\ yielded_count' = yielded_count + 1
    /\ rpc' = IF LimitReached(yielded_count', rcfg.limit) THEN "done" ELSE "reading"
    /\ UNCHANGED <<rcfg, rcap, frame_count, rout, nonReadVars>>

InitRead == SelIdle /\ MergeIdle /\ ProcIdle /\ ReadInit /\ SimIdle /\ ReportIdle /\ PairIdle /\ AudioIdle /\ FfmpegIdle

NextRead ==
    \/ RCall
    \/ RStart
    \/ RRead
    \/ RError
    \/ RResume
    \/ RAbandon
    \/ RFinalize
    \/ FStart
    \/ FRead
    \/ FResume

SpecRead == InitRead /\ [][NextRead]_vars

\* A generator nobody refers to is finalised by the interpreter.
SpecReadFair == SpecRead /\ WF_vars(RFinalize)

\* ------------------------------------------------------- frames_similar
MaxHashLen == 3       \* longest fingerprint compared

\* Boolean arrays of length 1 .. MaxHashLen.
Fingerprints == SeqsUpTo(BOOLEAN, MaxHashLen) \ {<<>>}

\* Two fingerprints of one length.
SimInit ==
    /\ fa \in Fingerprints
    /\ fb \in {h \in Fingerprints : Len(h) = Len(fa)}
    /\ fsim = None
    /\ fpc = "input"

\* frames_similar is called on the pair, in both argument orders.
Compare ==
    /\ fpc = "input"
    /\ fsim' = Some([ab |-> frames_similar(fa, fb), ba |-> frames_similar(fb, fa)])
    /\ fpc' = "compared"
    /\ UNCHANGED <<fa, fb, nonSimVars>>

InitSim == SelIdle /\ MergeIdle /\ ProcIdle /\ ReadIdle /\ SimInit /\ ReportIdle /\ PairIdle /\ AudioIdle /\ FfmpegIdle

NextSim == Compare

SpecSim == InitSim /\ [][NextSim]_vars

\* ------------------------------------------- ZipMarkdownReportGenerator
MaxReportFrames == 2  \* frames of a TranscriptResult handed to generate

\* Audio segment lists of a result: times in seconds, the text of a segment
\* is a number; the second list is not in start order.
ReportSegmentLists ==
    {<<>>,
     <<AudioSegment(0, 3, 1)>>,
     <<AudioSegment(61, 75, 1), AudioSegment(0, 3, 2)>>}

\* Frames of a result: a timestamp, an image, the segments attached to it.
ReportFrames ==
    {[timestamp_seconds |-> t, image |-> <<0, 1>>, audio_segments |-> segs] :
        t \in {0, 61}, segs \in {<<>>, <<AudioSegment(0, 3, 1)>>}}

\* lines 125-127: minutes and seconds of "M:SS"
_format_timestamp(seconds) == <<seconds \div 60, seconds % 60>>

\* One line of the markdown text: what it is, the slide or image number in
\* it, the segment text in it, and the formatted timestamps in it.
Line(kind, index, text, stamps) ==
    [kind |-> kind, index |-> index, text |-> text, stamps |-> stamps]

\* lines 103-113
_generate_audio_only_markdown_TitleOnly(audio_segments, include_timestamps) ==
    <<Line("# Audio Transcript", 0, 0, <<>>)>>
_generate_audio_only_markdown(audio_segments, include_timestamps) ==
    <<Line("# Audio Transcript", 0, 0, <<>>)>> \o
    [j \in 1..Len(audio_segments) |->
        Line("segment", 0, audio_segments[j].text,
             IF include_timestamps
             THEN <<_format_timestamp(audio_segments[j].start_seconds),
                    _format_timestamp(audio_segments[j].end_seconds)>>
             ELSE <<>>)]

\* lines 67-89: the lines of slide i
SlideLines(frame, i, include_timestamps) ==
    <<Line("## Slide", i, 0,
           IF include_timestamps THEN <<_format_timestamp(frame.timestamp_seconds)>>
                                 ELSE <<>>),
      Line("![Slide](img/frame.png)", i - 1, 0, <<>>)>> \o
    (IF frame.audio_segments # <<>>
     THEN <<Line("**Audio:**", 0, 0, <<>>)>> \o
          [j \in 1..Len(frame.audio_segments) |->
              Line("- segment", 0, frame.audio_segments[j].text,
                   IF include_timestamps
                   THEN <<_format_timestamp(frame.audio_segments[j].start_seconds),
                          _format_timestamp(frame.audio_segments[j].end_seconds)>>
                   ELSE <<>>)]
     ELSE <<>>) \o
    <<Line("", 0, 0, <<>>)>>

\* lines 58-91
_generate_markdown(result) ==
    IF result.frames = <<>>
    THEN IF result.audio_segments # <<>>
         THEN _generate_audio_only_markdown(result.audio_segments,
                                            result.include_timestamps)
         ELSE <<Line("# Video Transcript", 0, 0, <<>>),
                Line("No frames extracted from video.", 0, 0, <<>>)>>
    ELSE <<Line("# Video Transcript", 0, 0, <<>>)>> \o
         Flatten([i \in 1..Len(result.frames) |->
                     SlideLines(result.frames[i], i, result.include_timestamps)])

\* A zip entry: img/frame_NNN.png or transcript.md, and its content.
ZipEntry(dir, index, content) == [dir |-> dir, index |-> index, content |-> content]

\* lines 32-41
generate(result) ==
    [i \in 1..Len(result.frames) |-> ZipEntry("img", i - 1, <<result.frames[i].image>>)]
        \o <<ZipEntry("transcript.md", 0, _generate_markdown(result))>>

ReportInit ==
    /\ gin \in [frames : SeqsUpTo(ReportFrames, MaxReportFrames),
               audio_segments : ReportSegmentLists,
               include_timestamps : BOOLEAN]
    /\ gzip = <<>>
    /\ gpc = "input"

Generate ==
    /\ gpc = "input"
    /\ gzip' = generate(gin)
    /\ gpc' = "generated"
    /\ UNCHANGED <<gin, nonReportVars>>

InitReport == SelIdle /\ MergeIdle /\ ProcIdle /\ ReadIdle /\ SimIdle /\ ReportInit /\ PairIdle /\ AudioIdle /\ FfmpegIdle

NextReport == Generate

SpecReport == InitReport /\ [][NextReport]_vars

\* ---------------------------------------- FFmpegAudioExtractor.extract_audio
SampleRates == {16000, 44100}
ChannelCounts == {1, 2}
CallerPath == "out.wav"
TempPath == "tmp.wav"
ReturnCodes == {0, 1, 2}
StderrTexts == {"", "No such file or directory"}

\* The instance's settings and the output_path argument of one call.
FfmpegConfigs ==
    [sample_rate : SampleRates, channels : ChannelCounts,
     output_path : {None, Some(CallerPath)}]

\* tempfile.mkstemp creates a file and returns its path, or raises.
MkstempOutcomes == {"created", "OSError"}

\* subprocess.run: the ffmpeg executable is missing, the call fails in some
\* other way, or ffmpeg runs and exits with a code and a stderr text; with
\* exit code 0 the output file is there or (wrongly) not.
RunOutcomes ==
    {[raises |-> e, returncode |-> 0, stderr |-> "", output_exists |-> FALSE] :
         e \in {"FileNotFoundError", "PermissionError"}}
    \cup {[raises |-> "none", returncode |-> rc, stderr |-> t, output_exists |-> x] :
              rc \in ReturnCodes, t \in StderrTexts, x \in BOOLEAN}

\* lines 55-65
cmd(video_path, sample_rate, channels, path) ==
    <<"ffmpeg", "-y", "-i", video_path, "-vn", "-acodec", "pcm_s16le",
      "-ar", sample_rate, "-ac", channels, path>>

\* line 77: result.stderr or "Unknown error"
error_msg(stderr) == IF stderr = "" THEN "Unknown error" ELSE stderr

AudioExtractionError(kind, detail) ==
    [type |-> "AudioExtractionError", kind |-> kind, detail |-> detail]

\* lines 67-97: what extract_audio raises after subprocess.run, or None when
\* it returns output_path.
RaisedAfterRun(run) ==
    IF run.raises = "FileNotFoundError"
    THEN Some(AudioExtractionError("ffmpeg not found", ""))
    ELSE IF run.raises # "none"
    THEN Some(AudioExtractionError("Unexpected error", run.raises))
    ELSE IF run.returncode # 0
    THEN Some(AudioExtractionError("ffmpeg failed", error_msg(run.stderr)))
    ELSE IF ~run.output_exists
    THEN Some(AudioExtractionError("output file not created", ""))
    ELSE None

\* The file at output_path once subprocess.run is over: ffmpeg writes it when
\* it succeeds; nothing in extract_audio removes a file.
FileAfterRun(file, run) ==
    IF run.raises = "none" /\ run.returncode = 0
    THEN IF run.output_exists THEN "written" ELSE "missing"
    ELSE file

FfmpegInit ==
    /\ xcfg \in FfmpegConfigs
    /\ xpc = "idle"
    /\ output_path = None
    /\ xfile = "none"
    /\ xrun = None
    /\ xerr = None
    /\ xret = None

\* lines 48-52: without an output_path a temp file is made and its
\* descriptor closed; mkstemp is called outside the try statement.
XPrepare ==
    /\ xpc = "idle"
    /\ IF xcfg.output_path = None
       THEN \E mo \in MkstempOutcomes :
              IF mo = "created"
              THEN /\ output_path' = Some(TempPath)
                   /\ xfile' = "exists"
                   /\ xpc' = "prepared"
                   /\ xerr' = xerr
              ELSE /\ xerr' = Some([type |-> "OSError", kind |-> "mkstemp", detail |-> ""])
                   /\ xpc' = "raised"
                   /\ UNCHANGED <<output_path, xfile>>
       ELSE /\ output_path' = xcfg.output_path
            /\ xpc' = "prepared"
            /\ UNCHANGED <<xfile, xerr>>
    /\ UNCHANGED <<xcfg, xrun, xret, nonFfmpegVars>>

\* lines 55-73: the command is built and subprocess.run is called
XRun ==
    /\ xpc = "prepared"
    /\ \E run \in RunOutcomes :
         /\ xrun' = Some(run @@ [cmd |-> cmd("video.mp4", xcfg.sample_rate,
                                              xcfg.channels, output_path[1])])
         /\ xfile' = FileAfterRun(xfile, run)
    /\ xpc' = "ran"
    /\ UNCHANGED <<xcfg, output_path, xerr, xret, nonFfmpegVars>>

\* lines 75-97: the result is examined; extract_audio returns or raises
XFinish ==
    /\ xpc = "ran"
    /\ xerr' = RaisedAfterRun(xrun[1])
    /\ IF xerr' = None
       THEN xret' = output_path /\ xpc' = "returned"
       ELSE xret' = xret /\ xpc' = "raised"
    /\ UNCHANGED <<xcfg, output_path, xfile, xrun, nonFfmpegVars>>

InitFfmpeg == SelIdle /\ MergeIdle /\ ProcIdle /\ ReadIdle /\ SimIdle /\ ReportIdle /\ PairIdle /\ AudioIdle /\ FfmpegInit

NextFfmpeg ==
    \/ XPrepare
    \/ XRun
    \/ XFinish

SpecFfmpeg == InitFfmpeg /\ [][NextFfmpeg]_vars

\* ------------------------------------------------------------ properties
LastOut == out[Len(out)]
LastPulled == pulled[Len(pulled)]

\* The reference state of the running implementation.
Ref ==
    IF impl = "FrameSelector"
    THEN <<self.last_hash, self.last_captured_frame_number[1]>>
    ELSE <<loc.last_hash, loc.last_captured_frame>>

\* Agreeing positions of the hashes of two images, counted from the images.
AgreeWith(imgA, imgB) ==
    Cardinality({i \in 1..Len(imgA) :
        compute_frame_hash(imgA)[i] = compute_frame_hash(imgB)[i]})

\* A step in which the loop reads a frame / hands a frame to the consumer.
PullStep == Len(pulled') = Len(pulled) + 1 /\ pc = "running"
EmitStep == Len(out') = Len(out) + 1

\* C1: over a non-empty stream the first frame yielded is the first frame of
\* the stream, for every threshold in [0,1] (0 included) and every interval:
\* once the first frame has been read it has been emitted.
C1_FirstFrameEmitted ==
    pulled # <<>> =>
        /\ out # <<>>
        /\ out[1] = MakeFrameResult(pulled[1])

\* C2: the reference state (last captured hash and frame number) changes only
\* when the generator resumes after emitting a frame, and then becomes that
\* frame's hash and number; a dropped frame leaves it unchanged, so each frame
\* is compared against the most recently emitted one.
C2_RefStep ==
    /\ (pc = "yielded" /\ pc' = "running") =>
           Ref' = <<compute_frame_hash(LastOut.image), LastOut.frame_number>>
    /\ (~(pc = "yielded" /\ pc' = "running") /\ pc # "created") => Ref' = Ref
C2_RefIsLastEmitted ==
    pc = "running" =>
        Ref = IF out = <<>>
              THEN <<NoHash, -min_frame_interval>>
              ELSE <<compute_frame_hash(LastOut.image), LastOut.frame_number>>
C2_ReferenceOnlyOnEmit == [][C2_RefStep]_vars /\ []C2_RefIsLastEmitted
\* An emitted frame, then a dropped one, then a third frame being compared.
C2_Witness ==
    /\ Len(pulled) = 3
    /\ Len(out) = 2
    /\ out[1] = MakeFrameResult(pulled[1])
    /\ out[2] = MakeFrameResult(pulled[3])
    /\ pulled[2].image # pulled[1].image

\* C3: after a capture, a frame whose similarity to the last captured frame
\* equals the threshold is not emitted whatever its spacing, and a frame whose
\* similarity is strictly below the threshold is emitted when its frame number
\* is at least min_frame_interval after the last captured one.
C3_Step ==
    (PullStep /\ out # <<>>) =>
        LET f == pulled'[Len(pulled')]
            agree == AgreeWith(f.image, LastOut.image)
            n == Len(f.image)
        IN /\ (agree * ThrDen = similarity_threshold * n) => ~EmitStep
           /\ (/\ agree * ThrDen < similarity_threshold * n
               /\ f.frame_number - LastOut.frame_number >= min_frame_interval)
                  => EmitStep
C3_StrictThreshold == [][C3_Step]_vars
\* A frame exactly at the threshold was dropped although spaced far enough,
\* and a later frame below the threshold was emitted.
C3_Witness ==
    /\ Len(pulled) = 3
    /\ Len(out) = 2
    /\ out[2] = MakeFrameResult(pulled[3])
    /\ AgreeWith(pulled[2].image, pulled[1].image) * ThrDen
           = similarity_threshold * Len(pulled[1].image)
    /\ pulled[2].frame_number - pulled[1].frame_number >= min_frame_interval
    /\ AgreeWith(pulled[3].image, pulled[1].image) * ThrDen
           < similarity_threshold * Len(pulled[1].image)

\* C4: the spacing guard is inclusive: a frame whose similarity to the last
\* captured frame is below the threshold, at distance d from the last captured
\* frame number, is emitted iff d >= min_frame_interval.
C4_Step ==
    (PullStep /\ out # <<>>) =>
        LET f == pulled'[Len(pulled')]
            agree == AgreeWith(f.image, LastOut.image)
            n == Len(f.image)
        IN (agree * ThrDen < similarity_threshold * n) =>
              (EmitStep <=>
                  f.frame_number - LastOut.frame_number >= min_frame_interval)
C4_InclusiveSpacing == [][C4_Step]_vars
\* Captured frame at 0, a distinct frame at k-1 dropped, a distinct frame at k
\* emitted.
C4_Witness ==
    /\ min_frame_interval >= 2
    /\ Len(pulled) = 3
    /\ Len(out) = 2
    /\ pulled[1].frame_number = 0
    /\ pulled[2].frame_number = min_frame_interval - 1
    /\ pulled[3].frame_number = min_frame_interval
    /\ AgreeWith(pulled[2].image, pulled[1].image) * ThrDen
           < similarity_threshold * Len(pulled[1].image)
    /\ out[2] = MakeFrameResult(pulled[3])

\* What a newly constructed selector emits for the frames read so far.
RECURSIVE FreshRun(_, _, _, _)
FreshRun(frames, i, ref, acc) ==
    IF i > Len(frames)
    THEN acc
    ELSE LET f == frames[i]
             h == compute_frame_hash(f.image)
             distinct ==
                 IF impl = "FrameSelector"
                 THEN _is_frame_distinct(
                          [current_hash |-> h,
                           current_frame_number |-> Some(f.frame_number),
                           last_hash |-> ref[1],
                           last_captured_frame_number |-> Some(ref[2])],
                          similarity_threshold, min_frame_interval)
                 ELSE VTIsDistinct(
                          [current_hash |-> h, last_hash |-> ref[1],
                           last_captured_frame |-> ref[2]],
                          f, similarity_threshold, min_frame_interval)
         IN IF distinct
            THEN FreshRun(frames, i + 1, <<h, f.frame_number>>,
                          Append(acc, MakeFrameResult(f)))
            ELSE FreshRun(frames, i + 1, ref, acc)

\* C5: each invocation starts from fresh state: what an invocation has emitted
\* is what a newly constructed selector emits for the frames it has read,
\* whatever an earlier finished or abandoned invocation left behind.
C5_FreshStatePerCall ==
    pc \in {"running", "yielded", "done", "closed"} =>
        out = FreshRun(pulled, 1, <<NoHash, -min_frame_interval>>, <<>>)
\* A second invocation on a used selector has read frames and emitted one.
C5_Witness ==
    /\ reused
    /\ impl = "FrameSelector"
    /\ Len(pulled) = 2
    /\ Len(out) = 1

\* C6: single pass, no lookahead: when a frame is handed to the consumer the
\* frames read are exactly the stream prefix ending at that frame, and a frame
\* is read only while a request of the consumer is outstanding.
C6_AtYield ==
    pc = "yielded" =>
        /\ out # <<>>
        /\ LastOut = MakeFrameResult(LastPulled)
        /\ requests = Len(out)
C6_Step ==
    (pulled' # pulled /\ pulled' # <<>>) =>
        /\ pulled' = Append(pulled, pulled'[Len(pulled')])
        /\ Len(out) < requests
C6_NoLookahead == []C6_AtYield /\ [][C6_Step]_vars
\* The second output is handed over right after a dropped frame was read.
C6_Witness ==
    /\ pc = "yielded"
    /\ Len(out) = 2
    /\ Len(pulled) = 3

\* C7: the emitted sequence is a subsequence of the frames read, in order:
\* every emitted frame is an input frame with the same frame number, timestamp
\* and image, none is emitted twice and emitted frame numbers increase strictly.
C7_Subsequence ==
    /\ \E idx \in [1..Len(out) -> 1..Len(pulled)] :
          /\ \A j \in 1..Len(out) :
                /\ out[j].frame_number = pulled[idx[j]].frame_number
                /\ out[j].timestamp_seconds = pulled[idx[j]].timestamp_seconds
                /\ out[j].image = pulled[idx[j]].image
          /\ \A j \in 1..(Len(out) - 1) : idx[j] < idx[j + 1]
    /\ \A j \in 1..(Len(out) - 1) : out[j].frame_number < out[j + 1].frame_number
\* Two frames emitted with a dropped frame between them.
C7_Witness ==
    /\ Len(out) = 2
    /\ Len(pulled) = 3
    /\ out[2].frame_number = pulled[3].frame_number
    /\ out[1].frame_number = pulled[1].frame_number

\* Segment j of the input list is in the audio_segments of merged frame i.
Attached(j, i) ==
    \E p \in 1..Len(mframes[i].audio_segments) :
        mframes[i].audio_segments[p] = msegments[j]

StrictlyIncreasingTimestamps ==
    \A i \in 1..(Len(mframes) - 1) :
        mframes[i].timestamp_seconds < mframes[i + 1].timestamp_seconds

\* C8: after the merge, frame i holds exactly the segments whose start time s
\* satisfies timestamp_i <= s < timestamp_(i+1), with no upper end for the
\* last frame, in list order; a segment starting at the next frame's timestamp
\* goes to the next frame; end times play no role.
C8_WindowAssignment ==
    mpc = "merged" =>
        \A i \in 1..Len(mframes) :
            LET inWindow == {j \in 1..Len(msegments) :
                    /\ mframes[i].timestamp_seconds <= msegments[j].start_seconds
                    /\ (i < Len(mframes) =>
                          msegments[j].start_seconds < mframes[i + 1].timestamp_seconds)}
                got == mframes[i].audio_segments
            IN /\ \A j \in 1..Len(msegments) : Attached(j, i) <=> j \in inWindow
               /\ Len(got) = Cardinality(inWindow)
               /\ \A p \in 1..(Len(got) - 1) : got[p].text < got[p + 1].text
\* A segment that starts in frame 1's window and ends after frame 2's
\* timestamp stays with frame 1; one starting exactly at frame 2's timestamp
\* goes to frame 2.
C8_Witness ==
    /\ mpc = "merged"
    /\ Len(mframes) = 2
    /\ Len(msegments) = 2
    /\ mframes[1].timestamp_seconds < mframes[2].timestamp_seconds
    /\ msegments[1].start_seconds < mframes[2].timestamp_seconds
    /\ msegments[1].end_seconds > mframes[2].timestamp_seconds
    /\ msegments[2].start_seconds = mframes[2].timestamp_seconds
    /\ mframes[1].audio_segments = <<msegments[1]>>
    /\ mframes[2].audio_segments = <<msegments[2]>>

\* C9: the first captured frame's window starts at time 0: every segment that
\* starts before the first captured frame's timestamp is attached to the first
\* captured frame.
C9_FirstWindowFromZero ==
    (mpc = "merged" /\ mframes # <<>>) =>
        \A j \in 1..Len(msegments) :
            msegments[j].start_seconds < mframes[1].timestamp_seconds
                => Attached(j, 1)

\* C10: with at least one captured frame and strictly increasing timestamps,
\* every audio segment (start >= 0) is in the audio_segments of exactly one
\* frame of the merged result.
C10_Partition ==
    (mpc = "merged" /\ mframes # <<>> /\ StrictlyIncreasingTimestamps) =>
        \A j \in 1..Len(msegments) :
            Cardinality({i \in 1..Len(mframes) : Attached(j, i)}) = 1

\* Frame numbers of the frames emitted / read so far.
OutNumbers == [i \in DOMAIN out |-> out[i].frame_number]
PulledNumbers == [i \in DOMAIN pulled |-> pulled[i].frame_number]

HalfSimilar(imgA, imgB) == 2 * AgreeWith(imgA, imgB) = Len(imgA)

\* A finished run over three frames, each half similar to the one before
\* it, with interval 1 and a threshold strictly between 1/2 and 1 (as 0.51).
C18_Scenario ==
    /\ pc = "done"
    /\ Len(pulled) = 3
    /\ min_frame_interval = 1
    /\ 2 * similarity_threshold > ThrDen
    /\ similarity_threshold < ThrDen
    /\ HalfSimilar(pulled[2].image, pulled[1].image)
    /\ HalfSimilar(pulled[3].image, pulled[2].image)

\* C18 as stated: in the scenario exactly the first and the second frame
\* are captured.
C18_FirstTwoCaptured ==
    C18_Scenario => OutNumbers = SubSeq(PulledNumbers, 1, 2)

\* C18, amended: in the scenario all three frames are captured, the third
\* one because it is half similar to the second, the last captured frame.
C18_AllThreeCaptured ==
    C18_Scenario => OutNumbers = PulledNumbers

\* The scenario, ending on the image it started with.
C18_Witness ==
    /\ C18_Scenario
    /\ impl = "VideoTranscriber"
    /\ pulled[3].image = pulled[1].image
    /\ Len(out) = 3

\* C24: on an empty frame stream the generator is eventually exhausted,
\* having emitted nothing and raised nothing, whatever the threshold, the
\* interval and the implementation.
C24_EmptyStream ==
    /\ <>(pc = "done")
    /\ [](out = <<>> /\ pc \in {"idle", "created", "running", "done"})

\* A FrameSelector with threshold 1 ended on the first next().
C24_Witness ==
    /\ impl = "FrameSelector"
    /\ similarity_threshold = ThrDen
    /\ pc = "done"
    /\ pulled = <<>>
    /\ out = <<>>
    /\ requests = 1

\* C25: any two consecutive emitted frames are at least min_frame_interval
\* frame numbers apart and their hashes agree on strictly less than the
\* threshold's share of the positions.
C25_ConsecutiveEmitted ==
    \A i \in 2..Len(out) :
        /\ out[i].frame_number - out[i - 1].frame_number >= min_frame_interval
        /\ AgreeWith(out[i].image, out[i - 1].image) * ThrDen
               < similarity_threshold * Len(out[i].image)

\* Three emitted frames under interval 2, the last two exactly 2 apart.
C25_Witness ==
    /\ Len(out) = 3
    /\ min_frame_interval = 2
    /\ out[3].frame_number - out[2].frame_number = 2
    /\ similarity_threshold < ThrDen

\* C26: while two generators of one FrameSelector are consumed in any
\* interleaving, each has emitted what a selector of its own emits for the
\* frames it has read.
C26_NoInterference ==
    /\ pc # "raised"
    /\ pc2 # "raised"
    /\ pc \in {"running", "yielded", "done"} =>
          out = FreshRun(pulled, 1, <<NoHash, -min_frame_interval>>, <<>>)
    /\ pc2 \in {"running", "yielded", "done"} =>
          out2 = FreshRun(pulled2, 1, <<NoHash, -min_frame_interval>>, <<>>)

\* What a newly constructed selector of the named implementation emits for
\* the frames read so far.
RECURSIVE RunAs(_, _, _, _, _)
RunAs(name, frames, i, ref, acc) ==
    IF i > Len(frames)
    THEN acc
    ELSE LET f == frames[i]
             h == compute_frame_hash(f.image)
             distinct ==
                 IF name = "FrameSelector"
                 THEN _is_frame_distinct(
                          [current_hash |-> h,
                           current_frame_number |-> Some(f.frame_number),
                           last_hash |-> ref[1],
                           last_captured_frame_number |-> Some(ref[2])],
                          similarity_threshold, min_frame_interval)
                 ELSE VTIsDistinct(
                          [current_hash |-> h, last_hash |-> ref[1],
                           last_captured_frame |-> ref[2]],
                          f, similarity_threshold, min_frame_interval)
         IN IF distinct
            THEN RunAs(name, frames, i + 1, <<h, f.frame_number>>,
                       Append(acc, f.frame_number))
            ELSE RunAs(name, frames, i + 1, ref, acc)

OtherImpl == CHOOSE name \in Impls : name # impl

\* C27: the frame numbers an invocation has emitted are the frame numbers the
\* other implementation emits for the same frames, threshold and interval.
C27_SameFrameNumbers ==
    pc \in {"running", "yielded", "done"} =>
        OutNumbers = RunAs(OtherImpl, pulled, 1, <<NoHash, -min_frame_interval>>, <<>>)

\* Every downsampled pixel has the same value.
Uniform(image) == \A i \in DOMAIN image : image[i] = image[1]

AllFalse(image) == [i \in 1..Len(image) |-> FALSE]

\* C28: a uniform image hashes to the all-false fingerprint, two uniform
\* frames have similarity 1, and no uniform frame is emitted right after an
\* emitted uniform frame, whatever the threshold and the interval.
C28_UniformFrames ==
    /\ \A i \in DOMAIN pulled :
           Uniform(pulled[i].image) =>
               compute_frame_hash(pulled[i].image) = AllFalse(pulled[i].image)
    /\ \A i, j \in DOMAIN pulled :
           Uniform(pulled[i].image) /\ Uniform(pulled[j].image) =>
               LET sim == frames_similar(compute_frame_hash(pulled[i].image),
                                         compute_frame_hash(pulled[j].image))
               IN sim[1] = sim[2]
    /\ \A i \in 1..(Len(out) - 1) :
           ~(Uniform(out[i].image) /\ Uniform(out[i + 1].image))

\* A uniform frame of another colour was read right after an emitted uniform
\* frame, far enough from it, and dropped.
C28_Witness ==
    /\ Len(pulled) >= 2
    /\ Len(out) >= 1
    /\ pc = "running"
    /\ out[Len(out)] = MakeFrameResult(pulled[Len(pulled) - 1])
    /\ Uniform(pulled[Len(pulled) - 1].image)
    /\ Uniform(pulled[Len(pulled)].image)
    /\ pulled[Len(pulled)].image # pulled[Len(pulled) - 1].image
    /\ pulled[Len(pulled)].frame_number - pulled[Len(pulled) - 1].frame_number
           >= min_frame_interval
    /\ similarity_threshold = ThrDen

\* ---------------------------------------------- properties of process_video
Result == presult[1]

\* The path names a file inside the temp directory.
UnderTempDir(path) == startswith(path, gettempdir \o <<"/">>)

\* C29 (state part): once _extract_and_transcribe_audio has finished, a file
\* the extractor returned under the temp directory is gone and a file outside
\* it has not been deleted.
C29_FileState ==
    (ppc # "start" /\ audio_path # None) =>
        IF UnderTempDir(audio_path[1])
        THEN audio_file \in {"removed", "missing"}
        ELSE audio_file = "exists"

\* C29: the temp audio file is removed however transcription ends, a path
\* outside the temp directory is never deleted, and the file changes only
\* before process_video has asked for any video frame.
C29_TempAudioRemoved ==
    /\ []C29_FileState
    /\ [][audio_file' # audio_file => pc = "idle" /\ pulled = <<>>]_vars


AudioErrors == {"AudioExtractionError", "AudioTranscriptionError"}

CallsOn(port) == Cardinality({i \in DOMAIN alog : alog[i].port = port})

\* What the audio transcriber handed back in this call (nothing: empty).
TranscriberReturned ==
    IF \E i \in DOMAIN alog : alog[i].port = "transcribe_audio" /\ alog[i].raises = "none"
    THEN (CHOOSE c \in {alog[i] : i \in DOMAIN alog} :
              c.port = "transcribe_audio" /\ c.raises = "none").returned
    ELSE <<>>

AudioFailed == \E i \in DOMAIN alog : alog[i].raises \in AudioErrors

VisionFailed == \E i \in DOMAIN vlog : vlog[i].outcome = "VisionTranscriptionError"

\* C11: a returned result's audio_segments is the list the transcriber
\* returned, same segments in the same order, whatever the merge attached to
\* frames; and when the stream ended without any captured frame and that list
\* is non-empty, process_video raises nothing and returns no frames.
C11_FlatAudioSegments ==
    /\ ppc = "returned" => Result.audio_segments = TranscriberReturned
    /\ (pc = "done" /\ out = <<>> /\ TranscriberReturned # <<>>) =>
          /\ ppc # "raised"
          /\ ppc = "returned" => Result.frames = <<>>

C11_Witness ==
    /\ ppc = "returned"
    /\ Result.frames = <<>>
    /\ Result.audio_segments = <<AudioSegment(3, 4, 1), AudioSegment(0, 1, 2)>>

\* C12: when the extractor raised AudioExtractionError or the transcriber
\* raised AudioTranscriptionError, no audio error leaves process_video (it
\* can only be stopped by the reader or the vision port); the local segment
\* list is empty, and a returned result has empty audio_segments and exactly
\* the captured frames, in order, each with empty audio_segments.
C12_AudioFailureSwallowed ==
    AudioFailed =>
        /\ perr.process \notin AudioErrors
        /\ ppc = "raised" => perr.process \in ReaderErrors \cup {"VisionTranscriptionError"}
        /\ asegs = <<>>
        /\ ppc = "returned" =>
              /\ Result.audio_segments = <<>>
              /\ Len(Result.frames) = Len(out)
              /\ \A i \in DOMAIN out :
                    /\ Result.frames[i].frame_number = out[i].frame_number
                    /\ Result.frames[i].timestamp_seconds = out[i].timestamp_seconds
                    /\ Result.frames[i].image = out[i].image
                    /\ Result.frames[i].audio_segments = <<>>

C12_Witness ==
    /\ ppc = "returned"
    /\ \E i \in DOMAIN alog : alog[i].raises = "AudioTranscriptionError"
    /\ Len(Result.frames) = 2

\* C13: once the audio part is over, the extractor has been called exactly
\* once if transcribe_audio is true and both ports are configured, and the
\* transcriber at most once, after an extractor call that returned; otherwise
\* no audio port has been called and a returned result has no audio segments.
C13_AudioPortCalls ==
    ppc # "start" =>
        IF pcfg.transcribe_audio /\ pcfg.audio_extractor /\ pcfg.audio_transcriber
        THEN /\ CallsOn("extract_audio") = 1
             /\ CallsOn("transcribe_audio") <= 1
             /\ \A i \in DOMAIN alog :
                   alog[i].port = "transcribe_audio" =>
                       \E j \in 1..(i - 1) :
                           alog[j].port = "extract_audio" /\ alog[j].raises = "none"
        ELSE /\ alog = <<>>
             /\ ppc = "returned" => Result.audio_segments = <<>>

C13_Witness ==
    /\ ppc = "returned"
    /\ CallsOn("extract_audio") = 1
    /\ CallsOn("transcribe_audio") = 1
    /\ Result.audio_segments = <<AudioSegment(0, 1, 1)>>

\* C14: with transcribe_visuals true the vision calls are, in order, one per
\* frame the generator has emitted (one per captured frame once process_video
\* returns), each with that frame's image and with the caller's prompt (the
\* default prompt when the caller gave none); with transcribe_visuals false
\* there is no vision call.
C14_VisionCalls ==
    IF pcfg.transcribe_visuals
    THEN /\ Len(vlog) <= Len(out)
         /\ Len(vlog) >= Len(out) - 1
         /\ ppc = "returned" => Len(vlog) = Len(out)
         /\ \A i \in DOMAIN vlog :
               /\ vlog[i].image = out[i].image
               /\ vlog[i].prompt = IF pcfg.prompt = None THEN DefaultPrompt
                                                       ELSE CallerPrompt
    ELSE vlog = <<>>

\* Two frames read, the second one dropped, one vision call.
C14_Witness ==
    /\ ppc = "returned"
    /\ pcfg.prompt # None
    /\ Len(pulled) = 2
    /\ Len(Result.frames) = 1
    /\ Len(vlog) = 1

\* C15: when the vision transcriber raised for a captured frame,
\* process_video does not end by raising.
C15_VisionBestEffort ==
    VisionFailed => ppc # "raised"

\* C16: the step in which the reader raises emits and collects nothing and
\* takes nothing back; from then on the generator has raised the reader's own
\* error, process_video never returns a result, and when it has ended it has
\* raised that same error.
C16_RaiseStep ==
    (perr.reader = "none" /\ perr'.reader # "none") =>
        /\ out' = out
        /\ pframes' = pframes
        /\ pc' = "raised"

C16_AfterRaise ==
    perr.reader # "none" =>
        /\ perr.generator = perr.reader
        /\ pc = "raised"
        /\ ppc # "returned"
        /\ ppc = "raised" => perr.process = perr.reader

C16_ReaderErrorPropagates == [][C16_RaiseStep]_vars /\ []C16_AfterRaise

C16_Witness ==
    /\ ppc = "raised"
    /\ perr.process = "cv2.error"
    /\ Len(out) = 1
    /\ Len(pframes) = 1

\* ----------------------------------------------- properties of extract_audio
\* C30: when extract_audio, called without output_path, has raised, the error
\* is an AudioExtractionError and no temp file it created is left.
C30_NoTempFileLeft ==
    (xpc = "raised" /\ xcfg.output_path = None) =>
        /\ xerr[1].type = "AudioExtractionError"
        /\ xfile # "exists"

\* ------------------------------------------------- properties of read_frames
ReadEnded == rpc \in {"done", "raised", "closed"}

\* C17: whenever read_frames has ended (end of video, limit reached, an
\* error, or finalisation of an abandoned generator) no capture is left
\* open, and a capture held by an abandoned generator is eventually released.
C17_CaptureReleased ==
    /\ [](ReadEnded => rcap # "open")
    /\ (rpc = "abandoned" /\ rcap = "open") ~> (rcap = "released")

\* An abandoned read whose capture was opened has been closed and released.
C17_Witness ==
    /\ rcfg.reader = "OpenCVVideoAdapter"
    /\ rpc = "closed"
    /\ rcap = "released"
    /\ Len(rout) = 1
    /\ frame_count < rcfg.total

\* --------------------------------------------- properties of frames_similar
\* Positions where two fingerprints agree, counted one position at a time.
RECURSIVE AgreeCount(_, _)
AgreeCount(a, b) ==
    IF a = <<>> THEN 0
    ELSE (IF Head(a) = Head(b) THEN 1 ELSE 0) + AgreeCount(Tail(a), Tail(b))

\* C19: for two fingerprints of equal length n >= 1 the similarity is the
\* number of agreeing positions over n; it lies between 0 and 1, is 1 exactly
\* when the fingerprints are equal, is 0 exactly when they differ at every
\* position, and is the same in both argument orders.
C19_SimilarityIsAgreementRatio ==
    fpc = "compared" =>
        LET sim == fsim[1].ab
        IN /\ sim = <<AgreeCount(fa, fb), Len(fa)>>
           /\ sim[2] >= 1
           /\ 0 <= sim[1] /\ sim[1] <= sim[2]
           /\ (sim[1] = sim[2]) <=> (fa = fb)
           /\ (sim[1] = 0) <=> (\A i \in DOMAIN fa : fa[i] # fb[i])
           /\ fsim[1].ba = sim

\* Fingerprints of length 3 that agree at one position have been compared.
C19_Witness ==
    /\ fpc = "compared"
    /\ Len(fa) = 3
    /\ fsim[1].ab = <<1, 3>>

\* C21: read_frames never yields more than `limit` frames.
C21_AtMostLimit ==
    Len(rout) <= rcfg.limit

\* C22: the frames OpenCVVideoAdapter.read_frames has yielded are, in order,
\* the decoded frames at positions N, 2N, 3N, ... (N = sample_interval), all
\* of those among the frames decoded so far.
C22_EveryNth ==
    rcfg.reader = "OpenCVVideoAdapter" =>
        /\ \A i \in DOMAIN rout : rout[i] = i * rcfg.sample_interval
        /\ Len(rout) = frame_count \div rcfg.sample_interval

\* A video read to its end with sample_interval 2: only frame 2 was yielded.
C22_Witness ==
    /\ rcfg.reader = "OpenCVVideoAdapter"
    /\ rcfg.sample_interval = 2
    /\ rpc = "done"
    /\ frame_count = 3
    /\ rout = <<2>>

\* ------------------------------------------------- properties of the report
\* The content of transcript.md in the zip.
Markdown ==
    (CHOOSE e \in {gzip[i] : i \in DOMAIN gzip} : e.dir = "transcript.md").content

\* The segment texts the markdown lists, in order.
ListedTexts(md) ==
    LET segs == SelectSeq(md, LAMBDA l : l.kind \in {"segment", "- segment"})
    IN [j \in DOMAIN segs |-> segs[j].text]

\* C23: for a result with no frames and some audio segments, transcript.md
\* lists the texts of all segments in their order, has no image line and no
\* "No frames extracted" line, and the zip has no image entry; for a result
\* with no frames and no segments the zip has a transcript.md with content.
C23_AudioOnlyReport ==
    (gpc = "generated" /\ gin.frames = <<>>) =>
        /\ \E i \in DOMAIN gzip : gzip[i].dir = "transcript.md"
        /\ Markdown # <<>>
        /\ gin.audio_segments # <<>> =>
              /\ ListedTexts(Markdown) =
                    [j \in DOMAIN gin.audio_segments |-> gin.audio_segments[j].text]
              /\ \A k \in DOMAIN Markdown :
                    Markdown[k].kind \notin {"![Slide](img/frame.png)",
                                             "No frames extracted from video."}
              /\ \A i \in DOMAIN gzip : gzip[i].dir # "img"

C23_Witness ==
    /\ gpc = "generated"
    /\ gin.frames = <<>>
    /\ Len(gin.audio_segments) = 2
    /\ gin.include_timestamps
    /\ Len(Markdown) = 3

TypeOK ==
    /\ pc \in {"idle", "created", "running", "yielded", "done", "closed", "raised"}
    /\ ppc \in {"start", "frames", "returned", "raised"}
    /\ Len(pframes) <= Len(out)
    /\ Len(out) <= Len(pulled)
    /\ Len(pulled) <= MaxFrames
    /\ mpc \in {"input", "merged"}
    /\ rpc \in {"idle", "created", "reading", "yielded", "done", "raised",
               "abandoned", "abandoned unstarted", "closed"}
    /\ rcap \in {"none", "unopened", "open", "released"}
    /\ fpc \in {"input", "compared"}
    /\ pc2 \in {"idle", "created", "running", "yielded", "done", "raised"}
    /\ audio_file \in {"none", "exists", "removed", "missing"}
    /\ xpc \in {"idle", "prepared", "ran", "returned", "raised"}
    /\ xfile \in {"none", "exists", "written", "missing"}
    /\ (xpc = "returned") = (xret # None)
    /\ ~(pc = "running" /\ pc2 = "running")
    /\ Len(out2) <= Len(pulled2)
====
